---- MODULE Spec2Model ----
(***************************************************************************)
(* Model of richardjzhang/coding-agent: the sandbox file operations, the    *)
(* GitHub mutation pipeline (createPR) and the codingAgent tool loop.       *)
(*                                                                          *)
(* Text is a sequence of one-character strings.  The sandbox boundary is    *)
(* the environment: every runCommand either resolves (with exit code zero   *)
(* or non-zero; the code never reads the exit code) or rejects.             *)
(***************************************************************************)
EXTENDS Integers, Sequences, FiniteSets, TLC

VARIABLES pc, step, pending, sandbox, created, stopCalls, file, githubArgs, last,
          progress, toolAttempts

vars == <<pc, step, pending, sandbox, created, stopCalls, file, githubArgs, last,
          progress, toolAttempts>>

(***************************************************************************)
(* Bounds                                                                   *)
(***************************************************************************)
MaxLen == 2
MaxArg == 2
MaxToolArg == 1
MaxCalls == 2

Alphabet == {"a", "$", "&"}

RECURSIVE StrsUpTo(_)
StrsUpTo(n) ==
  IF n = 0 THEN {<<>>}
  ELSE LET S == StrsUpTo(n - 1)
       IN S \cup {Append(s, c) : s \in {t \in S : Len(t) = n - 1}, c \in Alphabet}

Contents == StrsUpTo(MaxLen)
Args == StrsUpTo(MaxArg)

(***************************************************************************)
(* Text helpers: String.prototype.indexOf / replace with a string pattern   *)
(***************************************************************************)
IsSubAt(s, t, i) ==
  /\ i >= 1
  /\ i + Len(t) - 1 <= Len(s)
  /\ SubSeq(s, i, i + Len(t) - 1) = t

Occurs(s, t) == \E i \in 1..(Len(s) + 1) : IsSubAt(s, t, i)

IndexOf(s, t) ==
  IF Occurs(s, t)
  THEN CHOOSE i \in 1..(Len(s) + 1) :
         /\ IsSubAt(s, t, i)
         /\ \A j \in 1..(i - 1) : ~IsSubAt(s, t, j)
  ELSE 0

RECURSIVE SubstFrom(_, _, _, _, _)
SubstFrom(matched, s, pos, repl, i) ==
  IF i > Len(repl) THEN <<>>
  ELSE IF repl[i] = "$" /\ i < Len(repl)
       THEN LET n == repl[i + 1]
            IN IF n = "$" THEN <<"$">> \o SubstFrom(matched, s, pos, repl, i + 2)
               ELSE IF n = "&" THEN matched \o SubstFrom(matched, s, pos, repl, i + 2)
               ELSE IF n = "`"
                    THEN SubSeq(s, 1, pos - 1) \o SubstFrom(matched, s, pos, repl, i + 2)
               ELSE IF n = "'"
                    THEN SubSeq(s, pos + Len(matched), Len(s))
                           \o SubstFrom(matched, s, pos, repl, i + 2)
               ELSE <<"$">> \o SubstFrom(matched, s, pos, repl, i + 1)
       ELSE <<repl[i]>> \o SubstFrom(matched, s, pos, repl, i + 1)

\* GetSubstitution of String.prototype.replace: $$, $&, $` and $' in the
\* replacement text are patterns (a string pattern has no capture groups).
GetSubstitution(matched, s, pos, repl) == SubstFrom(matched, s, pos, repl, 1)

\* contentStr.replace(old_str, new_str): the first occurrence only.
Replace(s, old, new) ==
  LET pos == IndexOf(s, old)
  IN IF pos = 0 THEN s
     ELSE SubSeq(s, 1, pos - 1)
            \o GetSubstitution(old, s, pos, new)
            \o SubSeq(s, pos + Len(old), Len(s))

(***************************************************************************)
(* The checkout: one regular file, README, which may be absent; .git and    *)
(* node_modules are directories; every other path is absent.                *)
(***************************************************************************)
README == "README.md"
Paths == {README, "nope.txt", ".git", "node_modules"}

Absent == [exists |-> FALSE, content |-> <<>>]
FileOf(c) == [exists |-> TRUE, content |-> c]

\* What `cat` prints to stderr for a path it cannot read.
Diag == <<"!">>

\* How one runCommand call ends: the promise rejects, or it resolves and
\* output() yields stdout alone or stdout and stderr together.
CatOutcomes == {"reject", "stdout", "both"}
CallOutcomes == {"ok", "reject"}

\* output() of `cat path` once the command has resolved.
CatOutput(f, path, how) ==
  IF path = README /\ f.exists THEN f.content
  ELSE IF how = "both" THEN Diag ELSE <<>>

EditEnvs == [cat : CatOutcomes, write : CallOutcomes, cat2 : CallOutcomes]

\* editFile that skips the "not found" guard.
editFileNoGuard(f, path, old_str, new_str, env) ==
  LET contentStr == IF env.cat = "reject" THEN <<>> ELSE CatOutput(f, path, env.cat)
      updatedContent == Replace(contentStr, old_str, new_str)
      base == [contentStr |-> contentStr, updatedContent |-> updatedContent,
               clean |-> env.cat # "reject" /\ env.write # "reject" /\ env.cat2 # "reject"]
  IN IF env.write = "reject"
     THEN base @@ [ret |-> "throw", writes |-> <<updatedContent>>,
                   cmds |-> <<"cat", "writeFiles">>, file |-> f]
     ELSE base @@ [ret |-> IF env.cat2 = "reject" THEN "throw" ELSE "success",
                   writes |-> <<updatedContent>>,
                   cmds |-> <<"cat", "writeFiles", "cat">>,
                   file |-> FileOf(updatedContent)]

\* editFile(sandbox, path, old_str, new_str) on a checkout whose README is f.
\* ret: "success" = {success: true}, "error" = {error: ...}, "throw" = rejects.
\* writes: the contents handed to writeFiles, in order.
editFile(f, path, old_str, new_str, env) ==
  LET contentStr == IF env.cat = "reject" THEN <<>> ELSE CatOutput(f, path, env.cat)
      updatedContent == Replace(contentStr, old_str, new_str)
      base == [contentStr |-> contentStr, updatedContent |-> updatedContent]
  IN IF contentStr = updatedContent /\ old_str # new_str
     THEN base @@ [ret |-> "error", writes |-> <<>>, cmds |-> <<"cat">>, file |-> f,
                   clean |-> env.cat # "reject"]
     ELSE IF env.write = "reject"
     THEN base @@ [ret |-> "throw", writes |-> <<updatedContent>>,
                   cmds |-> <<"cat", "writeFiles">>, file |-> f, clean |-> FALSE]
     ELSE base @@ [ret |-> IF env.cat2 = "reject" THEN "throw" ELSE "success",
                   writes |-> <<updatedContent>>,
                   cmds |-> <<"cat", "writeFiles", "cat">>,
                   file |-> FileOf(updatedContent),
                   clean |-> env.cat # "reject" /\ env.cat2 # "reject"]

NoCall == [op |-> "none"]
NoEvent == [kind |-> "none", message |-> ""]
NoAttempts == <<>>
NoArgs == [repoUrl |-> <<>>, githubToken |-> ""]

(***************************************************************************)
(* Direct calls of the exported editFile on a provisioned sandbox: the      *)
(* caller's arguments and the checkout are drawn at the start, the call     *)
(* then runs against whatever the sandbox does.                             *)
(***************************************************************************)
InitEdit ==
  /\ pc = "lib"
  /\ step = 0
  /\ pending = 0
  /\ sandbox = 1
  /\ created = 1
  /\ stopCalls = 0
  /\ file \in {Absent} \cup {FileOf(c) : c \in Contents}
  /\ githubArgs = NoArgs
  /\ progress = NoEvent
  /\ toolAttempts = NoAttempts
  /\ \E o \in Args, n \in Args :
       last = [op |-> "editFile", done |-> FALSE, old |-> o, new |-> n]

EditFileCall(env) ==
  /\ LET r == editFile(file, README, last.old, last.new, env)
     IN /\ file' = r.file
        /\ last' = [op |-> "editFile", done |-> TRUE, old |-> last.old,
                    new |-> last.new, before |-> file, r |-> r]
  /\ UNCHANGED <<pc, step, pending, sandbox, created, stopCalls, githubArgs,
               progress, toolAttempts>>

EditCallPending == pc = "lib" /\ last.op = "editFile" /\ ~last.done

NextEdit == EditCallPending /\ \E env \in EditEnvs : EditFileCall(env)

SpecEdit == InitEdit /\ [][NextEdit]_vars

(***************************************************************************)
(* GitHub mutation pipeline                                                 *)
(*                                                                          *)
(* A repository URL is a sequence of lexical pieces (scheme, host,          *)
(* separator, name).  A credential is a piece of text; "" stands for an     *)
(* absent or empty githubToken (both are falsy).                            *)
(***************************************************************************)
Token == "ghp"
Tokens == {"", Token}

Urls ==
  { <<"https://", "github.com", "/", "owner", "/", "repo">>,
    <<"git@", "github.com", ":", "owner", "/", "repo", ".git">>,
    <<"https://", "gitlab.com", "/", "owner", "/", "repo">>,
    <<"https://", "github.com", "/", "owner">> }

\* A piece that [^/]+ (and, as it holds no dot, [^/.]+) matches whole.
IsName(p) == p \in {"owner", "repo"}

\* repoUrl.match(/github\.com[/:]([^/]+)\/([^/.]+)/)
UrlMatches(url) ==
  \E i \in 1..Len(url) :
    /\ i + 4 <= Len(url)
    /\ url[i] = "github.com"
    /\ url[i + 1] \in {"/", ":"}
    /\ IsName(url[i + 2])
    /\ url[i + 3] = "/"
    /\ IsName(url[i + 4])

\* What the GitHub endpoints answer (the text output() yields):
\*   GET /user:   a user with name and email, a user with login only, an
\*                error message, JSON with neither, text that is not JSON;
\*   POST /pulls: a pull request, an error message, JSON with neither, text
\*                that is not JSON.
UserResponses == {"user", "loginOnly", "message", "other", "garbage"}
PRResponses == {"html_url", "message", "other", "garbage"}

\* The longest command sequence of one createPR run.
MaxCommands == 12

\* The environment of one pipeline run: rejectAt = which sandbox command (in
\* the order issued) has its promise rejected, failAt = which one resolves
\* with a non-zero exit code (0 = none), and what the commands print.
PREnvs ==
  [rejectAt : 0..MaxCommands, failAt : 0..MaxCommands, user : UserResponses,
   diffEmpty : BOOLEAN, markerIgnored : BOOLEAN, pr : PRResponses]

\* The commands of `plan` as far as they are issued, with how each ended.
\* `from` is the number of commands issued before the plan starts.
Issue(plan, from, env) ==
  LET cut == IF env.rejectAt - from \in 1..Len(plan)
             THEN env.rejectAt - from ELSE Len(plan)
  IN [i \in 1..cut |->
        [cmd |-> plan[i],
         out |-> IF i + from = env.rejectAt THEN "reject"
                 ELSE IF i + from = env.failAt THEN "nonzero" ELSE "ok"]]

Rejected(log) == \E i \in 1..Len(log) : log[i].out = "reject"

\* The text a curl call leaves in output(): the endpoint's answer, or nothing
\* that parses when the transfer itself failed (curl exits non-zero).
Answer(log, body) == IF log[Len(log)].out = "nonzero" THEN "garbage" ELSE body

\* validateGitHubToken(sandbox, githubToken); sb = FALSE is `undefined`, on
\* which sandbox.runCommand raises a TypeError inside the try block.
validateGitHubToken(sb, token, env) ==
  IF ~sb
  THEN [valid |-> FALSE, error |-> "Token validation error", log |-> <<>>]
  ELSE LET log == Issue(<<"curl GET /user">>, 0, env)
           result == Answer(log, env.user)
       IN IF Rejected(log) \/ result = "garbage"
          THEN [valid |-> FALSE, error |-> "Token validation error", log |-> log]
          ELSE IF result \in {"user", "loginOnly"}
          THEN [valid |-> TRUE, error |-> "", log |-> log]
          ELSE IF result = "message"
          THEN [valid |-> FALSE, error |-> "Token validation failed: message", log |-> log]
          ELSE [valid |-> FALSE, error |-> "Token validation failed: Invalid response",
                log |-> log]

\* The git commands with the push issued before the commit.
GitPlanPushFirst(env) ==
  <<"git config user.email", "git config user.name", "git remote set-url",
    "git checkout -b", "git add", "git diff --cached">>
  \o (IF env.diffEmpty THEN <<"bash echo > .ai-activity.md", "git add">> ELSE <<>>)
  \o <<"git push", "git commit">>

\* The git commands of createPR between validation and the URL match.
\* env.diffEmpty: `git diff --cached --name-only` printed nothing.
GitPlan(env) ==
  <<"git config user.email", "git config user.name", "git remote set-url",
    "git checkout -b", "git add", "git diff --cached">>
  \o (IF env.diffEmpty THEN <<"bash echo > .ai-activity.md", "git add">> ELSE <<>>)
  \o <<"git commit", "git push">>

\* Whether anything is staged once the staging commands in `git` have run:
\* the names the diff printed, or else the marker file, which is staged only
\* if the write and the second `git add` both worked and the checkout's
\* ignore rules do not cover .ai-activity.md.
StagedAfter(git, env) ==
  IF ~env.diffEmpty THEN TRUE
  ELSE /\ Len(git) >= 8
       /\ git[7].out = "ok"
       /\ git[8].out = "ok"
       /\ ~env.markerIgnored

\* `git commit` with nothing staged exits non-zero ("nothing to commit").
CommitOutcome(git, env) ==
  [i \in 1..Len(git) |->
     IF git[i].cmd = "git commit" /\ git[i].out = "ok" /\ ~StagedAfter(git, env)
     THEN [cmd |-> "git commit", out |-> "nonzero"]
     ELSE git[i]]

\* createPR after the credential test: validation, git commands, URL match,
\* pull-request POST.
PipelineAfterTokenTest(sb, token, url, env) ==
  LET v == validateGitHubToken(sb, token, env)
      issued == Issue(GitPlan(env), 1, env)
      git == CommitOutcome(issued, env)
      post == Issue(<<"curl POST /pulls">>, 1 + Len(GitPlan(env)), env)
      R(ret, error, log) ==
        [ret |-> ret, error |-> error, log |-> log, validated |-> v.valid,
         staged |-> v.valid /\ StagedAfter(issued, env)]
  IN IF ~v.valid THEN R("error", v.error, v.log)
     ELSE IF Rejected(git) THEN R("error", "command rejected", v.log \o git)
     ELSE IF ~UrlMatches(url)
     THEN R("error", "Invalid GitHub repository URL", v.log \o git)
     ELSE IF Rejected(post) THEN R("error", "command rejected", v.log \o git \o post)
     ELSE IF Answer(post, env.pr) = "garbage"
     THEN R("error", "JSON parse error", v.log \o git \o post)
     ELSE IF env.pr = "html_url" THEN R("success", "", v.log \o git \o post)
     ELSE IF env.pr = "message" THEN R("error", "message", v.log \o git \o post)
     ELSE R("error", "Failed to create PR", v.log \o git \o post)

\* createPR with the credential test left out.
createPRNoTokenTest(sb, token, url, env) == PipelineAfterTokenTest(sb, token, url, env)

\* createPR(sandbox, {repoUrl, githubToken}, prDetails).  ret = "success" is
\* {success, branch, pr_url, pr_number}, ret = "error" is {error: message};
\* log = the sandbox commands issued, in order.  It never rejects: the whole
\* body is inside try/catch.
createPR(sb, token, url, env) ==
  IF token = ""
  THEN [ret |-> "error", error |-> "GitHub token is required to create a PR",
        log |-> <<>>, validated |-> FALSE, staged |-> FALSE]
  ELSE PipelineAfterTokenTest(sb, token, url, env)

\* createIssue(sandbox, githubArgs, {title, body, labels}): credential
\* validation, then the POST to the issues endpoint; {success, ...} or {error}.
createIssue(sb, token, url, env) ==
  LET v == validateGitHubToken(sb, token, env)
      post == Issue(<<"curl POST /issues">>, 1, env)
      R(ret, error, log) ==
        [ret |-> ret, error |-> error, log |-> log, validated |-> v.valid]
  IN IF token = "" THEN [ret |-> "error", error |-> "GitHub token is required",
                         log |-> <<>>, validated |-> FALSE]
     ELSE IF ~v.valid THEN R("error", v.error, v.log)
     ELSE IF ~UrlMatches(url) THEN R("error", "Invalid GitHub repository URL", v.log)
     ELSE IF Rejected(post) THEN R("error", "command rejected", v.log \o post)
     ELSE IF Answer(post, env.pr) = "garbage"
     THEN R("error", "JSON parse error", v.log \o post)
     ELSE IF env.pr = "html_url" THEN R("success", "", v.log \o post)
     ELSE R("error", "Failed to create issue", v.log \o post)

(***************************************************************************)
(* Direct calls of the exported createPR                                    *)
(***************************************************************************)
InitPR ==
  /\ pc = "lib"
  /\ step = 0
  /\ pending = 0
  /\ sandbox = 1
  /\ created = 1
  /\ stopCalls = 0
  /\ file = Absent
  /\ githubArgs \in [repoUrl : Urls, githubToken : Tokens]
  /\ progress = NoEvent
  /\ toolAttempts = NoAttempts
  /\ last = [op |-> "createPR", done |-> FALSE]

CreatePRCall(env) ==
  /\ last' = [op |-> "createPR", done |-> TRUE,
              r |-> createPR(TRUE, githubArgs.githubToken, githubArgs.repoUrl, env)]
  /\ UNCHANGED <<pc, step, pending, sandbox, created, stopCalls, file, githubArgs,
               progress, toolAttempts>>

PRCallPending == pc = "lib" /\ last.op = "createPR" /\ ~last.done

NextPR == PRCallPending /\ \E env \in PREnvs : CreatePRCall(env)

SpecPR == InitPR /\ [][NextPR]_vars

(***************************************************************************)
(* createPR: the branch name                                                *)
(*                                                                          *)
(* Text is a sequence of pieces: "1", "-" and the default prefix; a clock   *)
(* reading is a natural number (milliseconds since the epoch).              *)
(***************************************************************************)
MaxPrefixLen == 2
MaxClock == 11

DefaultPrefix == <<"feature/ai-changes">>
PrefixPieces == {"1", "-", "feature/ai-changes"}
Prefixes == UNION {[1..n -> PrefixPieces] : n \in 0..MaxPrefixLen}

\* String(n) for a non-negative integer: its decimal digits.
RECURSIVE Digits(_)
Digits(n) ==
  LET d == <<"0", "1", "2", "3", "4", "5", "6", "7", "8", "9">>[(n % 10) + 1]
  IN IF n < 10 THEN <<d>> ELSE Digits(n \div 10) \o <<d>>

\* The name built without the "-" between prefix and clock reading.
BranchNameNoSeparator(branch, now) ==
  (IF branch = <<>> THEN DefaultPrefix ELSE branch) \o Digits(now)

\* `${branch || `feature/ai-changes`}-${Date.now()}`; <<>> is both the empty
\* string and undefined.
BranchName(branch, now) ==
  (IF branch = <<>> THEN DefaultPrefix ELSE branch) \o <<"-">> \o Digits(now)

InitBranch ==
  /\ pc = "lib"
  /\ step = 0
  /\ pending = 0
  /\ sandbox = 1
  /\ created = 1
  /\ stopCalls = 0
  /\ file = Absent
  /\ githubArgs = NoArgs
  /\ progress = NoEvent
  /\ toolAttempts = NoAttempts
  /\ \E b1 \in Prefixes, b2 \in Prefixes, t1 \in 0..MaxClock, t2 \in 0..MaxClock :
       last = [op |-> "branchName", done |-> FALSE,
               branch1 |-> b1, now1 |-> t1, branch2 |-> b2, now2 |-> t2]

\* Two createPR calls reach line 157.
BranchNames ==
  /\ pc = "lib" /\ last.op = "branchName" /\ ~last.done
  /\ last' = [last EXCEPT !.done = TRUE]
               @@ [name1 |-> BranchName(last.branch1, last.now1),
                   name2 |-> BranchName(last.branch2, last.now2)]
  /\ UNCHANGED <<pc, step, pending, sandbox, created, stopCalls, file, githubArgs,
               progress, toolAttempts>>

SpecBranch == InitBranch /\ [][BranchNames]_vars

(***************************************************************************)
(* flaky.ts: the attempt counters                                           *)
(*                                                                          *)
(* toolAttempts is the Map: a function from the keys present to counts.     *)
(***************************************************************************)
MaxAttempts == 2

FlakyNames == {<<"a">>, <<"a", ":">>}
FlakyIds == {<<>>, <<"default">>, <<"x">>, <<":", "default">>}

\* toolAttempts.get(key) || 0
Count(map, key) == IF key \in DOMAIN map THEN map[key] ELSE 0

\* toolAttempts.set(key, n)
MapSet(map, key, n) ==
  [k \in DOMAIN map \cup {key} |-> IF k = key THEN n ELSE map[k]]

\* `${toolName}:${identifier || "default"}`; <<>> is both the empty string
\* and undefined.
AttemptKey(toolName, identifier) ==
  toolName \o <<":">> \o (IF identifier = <<>> THEN <<"default">> ELSE identifier)

\* Counting per tool name, whatever the identifier.
shouldFailFirstAttemptByTool(map, toolName, identifier) ==
  LET attempts == Count(map, toolName)
  IN [ret |-> attempts = 0, map |-> MapSet(map, toolName, attempts + 1)]

\* shouldFailFirstAttempt(toolName, identifier?)
shouldFailFirstAttempt(map, toolName, identifier) ==
  LET key == AttemptKey(toolName, identifier)
      attempts == Count(map, key)
  IN [ret |-> attempts = 0, map |-> MapSet(map, key, attempts + 1)]

\* resetAttempts(): toolAttempts.clear()
resetAttempts(map) == NoAttempts

\* last.seen: the keys asked about since the start or the last reset.
InitFlaky ==
  /\ pc = "lib"
  /\ step = 0
  /\ pending = 0
  /\ sandbox = 1
  /\ created = 1
  /\ stopCalls = 0
  /\ file = Absent
  /\ githubArgs = NoArgs
  /\ progress = NoEvent
  /\ toolAttempts = NoAttempts
  /\ last = [op |-> "flaky", seen |-> {}]

FlakyLoaded == pc = "lib" /\ last.op \in {"flaky", "shouldFailFirstAttempt", "resetAttempts"}

ShouldFailCall(toolName, identifier) ==
  LET r == shouldFailFirstAttempt(toolAttempts, toolName, identifier)
  IN /\ Count(toolAttempts, AttemptKey(toolName, identifier)) < MaxAttempts
     /\ toolAttempts' = r.map
     /\ last' = [op |-> "shouldFailFirstAttempt", toolName |-> toolName,
                 identifier |-> identifier, ret |-> r.ret,
                 seen |-> last.seen \cup {AttemptKey(toolName, identifier)}]
     /\ UNCHANGED <<pc, step, pending, sandbox, created, stopCalls, file, githubArgs,
                  progress>>

ResetCall ==
  /\ toolAttempts' = resetAttempts(toolAttempts)
  /\ last' = [op |-> "resetAttempts", seen |-> {}]
  /\ UNCHANGED <<pc, step, pending, sandbox, created, stopCalls, file, githubArgs,
               progress>>

NextFlaky ==
  /\ FlakyLoaded
  /\ \/ \E toolName \in FlakyNames, identifier \in FlakyIds :
          ShouldFailCall(toolName, identifier)
     \/ ResetCall

SpecFlaky == InitFlaky /\ [][NextFlaky]_vars

(***************************************************************************)
(* codingAgent: the tool executors                                          *)
(*                                                                          *)
(* sandbox = 0 is `undefined`; a handle is the ordinal of the createSandbox *)
(* call that returned it.  Each executor yields                             *)
(*   ret     "ok" (a success payload), "error" (an object with an error     *)
(*           key) or "throw" (the executor's promise rejects),              *)
(*   sandbox, created   the shared handle and the number of sandboxes made, *)
(*   called  whether createSandbox was called,                              *)
(*   ran     whether a sandbox command was issued, on  the handle used.     *)
(***************************************************************************)
StepCeiling == 20

\* Provisioning that ignores the handle already held.
ProvisionAlways(sb, cr, how) ==
  IF how = "reject"
  THEN [sandbox |-> sb, created |-> cr, called |-> TRUE, threw |-> TRUE]
  ELSE [sandbox |-> cr + 1, created |-> cr + 1, called |-> TRUE, threw |-> FALSE]

\* if (!sandbox) { sandbox = await createSandbox(githubArgs); }
Provision(sb, cr, how) ==
  IF sb # 0
  THEN [sandbox |-> sb, created |-> cr, called |-> FALSE, threw |-> FALSE]
  ELSE IF how = "reject"
  THEN [sandbox |-> 0, created |-> cr, called |-> TRUE, threw |-> TRUE]
  ELSE [sandbox |-> cr + 1, created |-> cr + 1, called |-> TRUE, threw |-> FALSE]

\* onProgress(message, "thinking")
Thinking(message) == [kind |-> "thinking", message |-> message]

\* onProgress("Analysis complete!", "result")
FinalEvent == [kind |-> "result", message |-> "Analysis complete!"]

\* The last message an executor passes to onProgress: the "setting up" one
\* when createSandbox then rejects, the executor's own one otherwise (without
\* the path that follows it).
LastMessage(p, message) ==
  IF p.threw THEN "Setting up development environment..." ELSE message

ToolResult(ret, p, ran, f) ==
  [ret |-> ret, sandbox |-> p.sandbox, created |-> p.created, called |-> p.called,
   ran |-> ran > 0, on |-> IF ran > 0 THEN p.sandbox ELSE 0, file |-> f]

\* readFile(sandbox, path): {path, content} whatever the exit code of cat.
readFile(f, path, how) ==
  IF how = "reject" THEN [ret |-> "throw", content |-> <<>>]
  ELSE [ret |-> "ok", content |-> CatOutput(f, path, how)]

\* read_file.execute
read_file(sb, cr, f, path, env) ==
  LET p == Provision(sb, cr, env.create)
      e == [event |-> LastMessage(p, "Reading file: ")]
  IN IF p.threw THEN ToolResult("error", p, 0, f) @@ e
     ELSE IF readFile(f, path, env.cat).ret = "throw"
     THEN ToolResult("error", p, 1, f) @@ e
     ELSE ToolResult("ok", p, 1, f) @@ e

\* A refusal test that knows one of the two paths only.
IsRefusedPathGitOnly(path) == path = ".git"

\* path === ".git" || path === "node_modules"
IsRefusedPath(path) == path = ".git" \/ path = "node_modules"

\* list_files.execute; path "" stands for null and for the empty string.
list_files(sb, cr, f, path, env) ==
  IF IsRefusedPath(path)
  THEN ToolResult("error", [sandbox |-> sb, created |-> cr, called |-> FALSE], 0, f)
         @@ [event |-> ""]
  ELSE LET p == Provision(sb, cr, env.create)
           e == [event |-> LastMessage(p, "Listing files in: ")]
       IN IF p.threw THEN ToolResult("error", p, 0, f) @@ e
          ELSE IF env.cat = "reject" THEN ToolResult("error", p, 1, f) @@ e
          ELSE ToolResult("ok", p, 1, f) @@ e

\* edit_file.execute: the value editFile resolves to is not looked at.
edit_file(sb, cr, f, path, old_str, new_str, env) ==
  LET p == Provision(sb, cr, env.create)
      r == editFile(f, path, old_str, new_str, env)
      e == [event |-> LastMessage(p, "Editing file: ")]
  IN IF p.threw THEN ToolResult("error", p, 0, f) @@ [inner |-> "none"] @@ e
     ELSE ToolResult(IF r.ret = "throw" THEN "error" ELSE "ok", p, Len(r.cmds), r.file)
            @@ [inner |-> r.ret] @@ e

\* create_pr.execute: no provisioning; createPR gets the handle as it is.
create_pr(sb, cr, f, token, url, env) ==
  LET p == [sandbox |-> sb, created |-> cr, called |-> FALSE]
  IN IF token = "" THEN ToolResult("error", p, 0, f) @@ [event |-> ""]
     ELSE LET r == createPR(sb # 0, token, url, env)
          IN ToolResult(IF r.ret = "error" THEN "error" ELSE "ok", p, Len(r.log), f)
               @@ [event |-> "Creating pull request..."]

\* create_issue.execute: provisioning is outside any try block.
create_issue(sb, cr, f, token, url, env) ==
  IF token = ""
  THEN ToolResult("error", [sandbox |-> sb, created |-> cr, called |-> FALSE], 0, f)
         @@ [event |-> ""]
  ELSE LET p == Provision(sb, cr, env.create)
           r == createIssue(p.sandbox # 0, token, url, env)
           e == [event |-> LastMessage(p, "Creating GitHub issue...")]
       IN IF p.threw THEN ToolResult("throw", p, 0, f) @@ e
          ELSE ToolResult(IF r.ret = "error" THEN "error" ELSE "ok", p, Len(r.log), f)
                 @@ e

\* sandbox.stop() calls made once generateText has returned.
StopsOnReturnAlways(sb) == 1

\* if (sandbox) { await sandbox.stop(); }
StopsOnReturn(sb) == IF sb # 0 THEN 1 ELSE 0

(***************************************************************************)
(* codingAgent: one invocation                                              *)
(*                                                                          *)
(* pc: "generate" = inside generateText, "returned" = generateText has      *)
(* resolved, "done" = codingAgent resolved, "rejected" = codingAgent        *)
(* rejected.  The engine runs the tool calls of a step one after another    *)
(* and starts the next step when they have all completed.                   *)
(***************************************************************************)
CreateOutcomes == {"ok", "reject"}
ReadEnvs == [create : CreateOutcomes, cat : CatOutcomes]
ToolEditEnvs ==
  [create : CreateOutcomes, cat : CatOutcomes, write : CallOutcomes, cat2 : CallOutcomes]
ToolPREnvs ==
  [create : CreateOutcomes, rejectAt : {0, 2}, failAt : {0},
   user : {"user", "garbage"}, diffEmpty : {TRUE}, markerIgnored : {FALSE},
   pr : {"html_url", "garbage"}]
ToolStrs == {<<>>, <<"a">>}
ToolUrls == {u \in Urls : u[1] = "https://" /\ Len(u) = 6}
ListPaths == Paths \cup {""}

Init ==
  /\ pc = "generate"
  /\ step = 0
  /\ pending = 0
  /\ sandbox = 0
  /\ created = 0
  /\ stopCalls = 0
  /\ file \in {Absent, FileOf(<<"a">>)}
  /\ githubArgs \in [repoUrl : ToolUrls, githubToken : Tokens]
  /\ progress = Thinking("Starting analysis of the repository...")
  /\ toolAttempts = NoAttempts
  /\ last = NoCall

\* A step guard without the ceiling.
MayStartStepWhilePending(st, pend) == st < StepCeiling

\* The engine consults the model again: the tool calls of the previous step
\* have all completed and the step count is below the ceiling.
MayStartStep(st, pend) == pend = 0 /\ st < StepCeiling

\* The model asks for n tool calls in this step.
ModelRequestsTools(n) ==
  /\ pc = "generate" /\ MayStartStep(step, pending)
  /\ step' = step + 1
  /\ pending' = n
  /\ UNCHANGED <<pc, sandbox, created, stopCalls, file, githubArgs, last,
               progress, toolAttempts>>

\* The model answers without asking for a tool: generateText resolves.
ModelAnswers ==
  /\ pc = "generate" /\ MayStartStep(step, pending)
  /\ step' = step + 1
  /\ pc' = "returned"
  /\ UNCHANGED <<pending, sandbox, created, stopCalls, file, githubArgs, last,
               progress, toolAttempts>>

\* stopWhen: stepCountIs(20)
CeilingReached ==
  /\ pc = "generate" /\ pending = 0 /\ step = StepCeiling
  /\ pc' = "returned"
  /\ UNCHANGED <<step, pending, sandbox, created, stopCalls, file, githubArgs, last,
               progress, toolAttempts>>

\* The model call itself fails: generateText rejects, codingAgent with it.
EngineRejects ==
  /\ pc = "generate" /\ pending = 0
  /\ pc' = "rejected"
  /\ UNCHANGED <<step, pending, sandbox, created, stopCalls, file, githubArgs, last,
               progress, toolAttempts>>

\* One tool call ran with result r.  A rejected executor is either reported
\* to the model as a tool error or it rejects generateText, depending on the
\* engine (onThrow).
ToolCall(op, path, r, onThrow) ==
  /\ sandbox' = r.sandbox
  /\ created' = r.created
  /\ file' = r.file
  /\ pending' = pending - 1
  /\ pc' = IF r.ret = "throw" /\ onThrow = "reject" THEN "rejected" ELSE pc
  /\ last' = [op |-> op, path |-> path, pre |-> sandbox,
              present |-> (path = README /\ file.exists),
              r |-> [r EXCEPT !.file = <<>>]]
  /\ progress' = IF r.event = "" THEN progress ELSE Thinking(r.event)
  /\ UNCHANGED <<step, stopCalls, githubArgs, toolAttempts>>

ToolPending == pc = "generate" /\ pending > 0

ToolReadFile ==
  \E path \in Paths, env \in ReadEnvs :
    ToolCall("read_file", path, read_file(sandbox, created, file, path, env), "report")

ToolListFiles ==
  \E path \in ListPaths, env \in ReadEnvs :
    ToolCall("list_files", path, list_files(sandbox, created, file, path, env), "report")

ToolEditFile ==
  /\ Len(file.content) <= MaxToolArg
  /\ \E o \in ToolStrs, n \in ToolStrs, env \in ToolEditEnvs :
       ToolCall("edit_file", README,
                edit_file(sandbox, created, file, README, o, n, env), "report")

ToolCreatePr ==
  \E env \in ToolPREnvs :
    ToolCall("create_pr", "",
             create_pr(sandbox, created, file, githubArgs.githubToken,
                       githubArgs.repoUrl, env), "report")

ToolCreateIssue ==
  \E env \in ToolPREnvs, onThrow \in {"report", "reject"} :
    ToolCall("create_issue", "",
             create_issue(sandbox, created, file, githubArgs.githubToken,
                          githubArgs.repoUrl, env), onThrow)

\* After generateText: stop the sandbox if there is one, then resolve.
Finish(stopHow) ==
  /\ pc = "returned"
  /\ stopCalls' = stopCalls + StopsOnReturn(sandbox)
  /\ pc' = IF StopsOnReturn(sandbox) > 0 /\ stopHow = "reject" THEN "rejected" ELSE "done"
  /\ progress' = IF StopsOnReturn(sandbox) > 0 /\ stopHow = "reject"
                 THEN Thinking("Cleaning up environment...") ELSE FinalEvent
  /\ UNCHANGED <<step, pending, sandbox, created, file, githubArgs, last, toolAttempts>>

Next ==
  \/ \E n \in 1..MaxCalls : ModelRequestsTools(n)
  \/ ModelAnswers
  \/ CeilingReached
  \/ EngineRejects
  \/ ToolPending /\ ToolReadFile
  \/ ToolPending /\ ToolListFiles
  \/ ToolPending /\ ToolEditFile
  \/ ToolPending /\ ToolCreatePr
  \/ ToolPending /\ ToolCreateIssue
  \/ \E stopHow \in CallOutcomes : Finish(stopHow)

Spec == Init /\ [][Next]_vars

(***************************************************************************)
(* The exported API together: codingAgent invocations and direct createPR   *)
(* calls.                                                                   *)
(***************************************************************************)
SpecApi == (Init \/ InitPR) /\ [][Next \/ NextPR]_vars

(***************************************************************************)
(* Claims about codingAgent (checked under Spec)                            *)
(***************************************************************************)
Tools == {"read_file", "list_files", "edit_file", "create_pr", "create_issue"}

ToolRan == last.op \in Tools

\* C1: in one invocation createSandbox succeeds at most once; a tool call
\* that finds the handle set does not call createSandbox, leaves the handle
\* as it is and issues its commands on that handle.
C1_SingleSandbox ==
  /\ created <= 1
  /\ sandbox \in {0, 1}
  /\ (ToolRan /\ last.pre # 0)
       => /\ ~last.r.called
          /\ sandbox = last.pre
          /\ (last.r.ran => last.r.on = last.pre)

C1_Witness ==
  /\ ToolRan /\ last.op = "create_issue" /\ last.pre # 0 /\ last.r.ran
  /\ step >= 2 /\ created = 1

\* C2: once generateText has returned, sandbox.stop() is called exactly once
\* if a sandbox was provisioned and not at all otherwise; it is called when
\* no tool call is outstanding and nothing runs on the sandbox afterwards.
C2_StopOnce ==
  /\ [](pc = "done" => stopCalls = IF created > 0 THEN 1 ELSE 0)
  /\ [](stopCalls <= 1)
  /\ [][stopCalls > 0 => (last' = last /\ file' = file /\ pending = 0)]_vars

C2_Witness ==
  /\ pc = "done" /\ stopCalls = 1 /\ step >= 2
  /\ ToolRan /\ last.r.ran

\* C3: no tool executor lets an exception through: every tool call ends in a
\* result object, never in a rejection.
C3_ToolsNeverThrow == ToolRan => last.r.ret # "throw"

\* C10: list_files with path .git or node_modules returns an error result
\* without calling createSandbox and without a sandbox command, whether or
\* not a sandbox exists.
C10_ListRefusal ==
  (last.op = "list_files" /\ last.path \in {".git", "node_modules"})
  => /\ last.r.ret = "error"
     /\ ~last.r.called
     /\ ~last.r.ran
     /\ sandbox = last.pre

C10_Witness ==
  /\ last.op = "list_files" /\ last.path = "node_modules"
  /\ last.pre # 0 /\ last.r.ret = "error"

\* C11: read_file with path .git or node_modules returns a refusal error
\* without calling createSandbox and without a sandbox command.
C11_ReadRefusal ==
  (last.op = "read_file" /\ last.path \in {".git", "node_modules"})
  => /\ last.r.ret = "error"
     /\ ~last.r.called
     /\ ~last.r.ran

\* C12: read_file on a path that is not a file of the checkout (cat exits
\* non-zero) ends in an error result, never in a success payload and never
\* in a rejection.
C12_ReadMissing ==
  (last.op = "read_file" /\ ~last.present) => last.r.ret = "error"

\* The text the model gave last (result.text).
ModelText == "<the model's answer>"

\* C13: an invocation that has returned emitted, as its last progress event,
\* one of kind "complete" whose message is the model's last answer.
C13_FinalComplete ==
  pc = "done" => progress = [kind |-> "complete", message |-> ModelText]

\* C14: however the invocation ends (resolved or rejected), a sandbox that
\* was provisioned during it has had stop() called on it.
C14_AlwaysStopped ==
  (pc \in {"done", "rejected"} /\ created > 0) => stopCalls >= 1

\* What is left of an invocation: the steps the ceiling still allows, each
\* with its tool calls, then the return and the cleanup.
Remaining ==
  IF pc = "generate" THEN 2 + (StepCeiling - step) * (MaxCalls + 1) + pending
  ELSE IF pc = "returned" THEN 1 ELSE 0

\* C15: the invocation terminates (every step of it uses up some of what
\* remains, and it can go on until it has resolved or rejected); the loop
\* runs at most 20 steps; a step begins only when every tool call of the
\* step before has completed, and steps are counted one by one.
C15_BoundedSequential ==
  /\ [](step <= StepCeiling /\ Remaining >= 0)
  /\ [](pc \notin {"done", "rejected"} => ENABLED Next)
  /\ [][Remaining' < Remaining]_vars
  /\ [][step' # step => (pending = 0 /\ step' = step + 1)]_vars

C15_Witness ==
  /\ pc = "done" /\ step = StepCeiling /\ ToolRan /\ stopCalls = 1

\* C19: when editFile returns {error} (text not found, nothing written) the
\* edit_file tool returns a result with an error key; it returns
\* {success: true} only when editFile wrote.
C19_EditResultAgrees ==
  last.op = "edit_file"
  => /\ (last.r.inner = "error" => last.r.ret = "error")
     /\ (last.r.ret = "ok" => last.r.inner = "success")

(***************************************************************************)
(* Claims about createPR (checked under SpecPR, C4 under SpecApi)           *)
(***************************************************************************)
PRDone == last.op = "createPR" /\ last.done

HasCmd(log, c) == \E i \in 1..Len(log) : log[i].cmd = c

\* C4: without a credential createPR returns {error} saying a GitHub token is
\* required and issues no sandbox command; the create_pr and create_issue
\* tools return an error result without provisioning a sandbox or running a
\* command.
C4_NoCredential ==
  /\ (PRDone /\ githubArgs.githubToken = "")
       => /\ last.r.ret = "error"
          /\ last.r.error = "GitHub token is required to create a PR"
          /\ last.r.log = <<>>
  /\ (last.op \in {"create_pr", "create_issue"} /\ githubArgs.githubToken = "")
       => /\ last.r.ret = "error"
          /\ ~last.r.called
          /\ ~last.r.ran
          /\ sandbox = last.pre

C4_Witness == PRDone /\ githubArgs.githubToken = "" /\ last.r.ret = "error"

\* C5: with a valid credential and a repository URL that does not match
\* github.com[/:]owner/repo, createPR returns the invalid-URL error and has
\* not run git push (no sandbox call rejecting).
C5_RejectBeforePush ==
  (PRDone /\ last.r.validated /\ ~UrlMatches(githubArgs.repoUrl)
     /\ ~Rejected(last.r.log))
  => /\ last.r.ret = "error"
     /\ last.r.error = "Invalid GitHub repository URL"
     /\ ~HasCmd(last.r.log, "git push")

\* C6: a command of the pipeline that rejects or exits non-zero is the last
\* command createPR issues, and the result is {error}.
C6_FailureAborts ==
  PRDone =>
    \A i \in 1..Len(last.r.log) :
      last.r.log[i].out # "ok" => (i = Len(last.r.log) /\ last.r.ret = "error")

\* The names of the commands in a log, in order.
Cmds(log) == [i \in 1..Len(log) |-> log[i].cmd]

IsPrefix(s, t) == Len(s) <= Len(t) /\ s = SubSeq(t, 1, Len(s))

\* The whole pipeline, with or without the marker commands.
FullOrder(marker) ==
  <<"curl GET /user", "git config user.email", "git config user.name",
    "git remote set-url", "git checkout -b", "git add", "git diff --cached">>
  \o (IF marker THEN <<"bash echo > .ai-activity.md", "git add">> ELSE <<>>)
  \o <<"git commit", "git push", "curl POST /pulls">>

\* C17: the commands of a createPR run are an initial part of: validation,
\* git config email, git config name, remote set-url, checkout -b, git add,
\* git diff --cached, (marker write, git add), git commit, git push, PR POST;
\* each is issued only after the one before it has resolved, and nothing
\* follows validation unless validation returned a login.
C17_PipelineOrder ==
  PRDone =>
    /\ \E marker \in BOOLEAN : IsPrefix(Cmds(last.r.log), FullOrder(marker))
    /\ \A i \in 1..Len(last.r.log) :
         last.r.log[i].out = "reject" => i = Len(last.r.log)
    /\ Len(last.r.log) > 1 => last.r.validated
    /\ last.r.ret = "success" => Len(last.r.log) >= Len(FullOrder(FALSE))

C17_Witness ==
  PRDone /\ last.r.ret = "success" /\ Cmds(last.r.log) = FullOrder(TRUE)

\* C18: whenever createPR runs `git commit` (the diff command having exited
\* with zero), the staged set is not empty.
C18_CommitNotEmpty ==
  (PRDone /\ HasCmd(last.r.log, "git commit") /\ last.r.log[7].out = "ok")
  => last.r.staged

(***************************************************************************)
(* Claims about editFile (checked under SpecEdit)                           *)
(***************************************************************************)
\* `s` with the first occurrence of `old` replaced by the text `new` itself.
ReplaceLiteral(s, old, new) ==
  LET pos == IndexOf(s, old)
  IN IF pos = 0 THEN s
     ELSE SubSeq(s, 1, pos - 1) \o new \o SubSeq(s, pos + Len(old), Len(s))

EditDone == last.op = "editFile" /\ last.done

\* C7: editFile(path, old, new) with old absent from the file's content and
\* old # new returns {error}, hands nothing to writeFiles and leaves the file
\* as it was.
C7_AbsentNoWrite ==
  (EditDone /\ last.before.exists /\ ~Occurs(last.before.content, last.old)
     /\ last.old # last.new)
  => (last.r.ret = "error" /\ last.r.writes = <<>> /\ file = last.before)

C7_Witness ==
  /\ EditDone /\ last.before.exists /\ Len(last.before.content) = MaxLen
  /\ ~Occurs(last.before.content, last.old) /\ last.old # last.new
  /\ last.r.ret = "error" /\ last.r.clean

\* C8: with old present in the file, editFile performs exactly one writeFiles
\* call whose content is the original with the first occurrence of old
\* replaced by the literal text new, and returns {success}, whatever old and
\* new are (no sandbox call failing).
C8_LiteralReplace ==
  (EditDone /\ last.r.clean /\ last.before.exists
     /\ Occurs(last.before.content, last.old))
  => /\ last.r.ret = "success"
     /\ last.r.writes = <<ReplaceLiteral(last.before.content, last.old, last.new)>>

\* C9: editFile(path, old, old) returns {success}, never an error, and writes
\* back exactly the content it read (no sandbox call failing).
C9_NoOpEdit ==
  (EditDone /\ last.r.clean /\ last.old = last.new)
  => (last.r.ret = "success" /\ last.r.writes = <<last.r.contentStr>>)

(***************************************************************************)
(* Claims about the branch name (checked under SpecBranch)                  *)
(***************************************************************************)
\* C16: the branch names of two createPR calls differ whenever the calls'
\* clock readings differ, whatever the two prefixes are.
C16_DistinctNames ==
  (last.op = "branchName" /\ last.done /\ last.now1 # last.now2)
  => last.name1 # last.name2

C16_Witness ==
  /\ last.op = "branchName" /\ last.done
  /\ last.now1 # last.now2 /\ last.now1 >= 10
  /\ last.branch1 # last.branch2
  /\ Len(last.name1) = Len(last.name2)
  /\ last.name1[1] = last.name2[1]

(***************************************************************************)
(* Claims about the attempt counters (checked under SpecFlaky)              *)
(***************************************************************************)
\* C20: a shouldFailFirstAttempt call returns true exactly when its key
\* toolName:identifier (identifier "default" when not given) has not been
\* asked about since the start or the last resetAttempts; it raises that
\* key's count by one and leaves every other key's count as it was;
\* resetAttempts leaves every count at zero.
C20_FirstAttemptOnly ==
  [][/\ last'.op = "shouldFailFirstAttempt" =>
          LET key == last'.toolName \o <<":">> \o
                       (IF last'.identifier = <<>> THEN <<"default">>
                        ELSE last'.identifier)
          IN /\ last'.ret = (key \notin last.seen)
             /\ last'.ret = (Count(toolAttempts, key) = 0)
             /\ \A k \in DOMAIN toolAttempts \cup DOMAIN toolAttempts' \cup {key} :
                  Count(toolAttempts', k)
                    = Count(toolAttempts, k) + (IF k = key THEN 1 ELSE 0)
     /\ last'.op = "resetAttempts" =>
          /\ DOMAIN toolAttempts' = {}
          /\ last'.seen = {}
    ]_vars

C20_Witness ==
  /\ last.op = "shouldFailFirstAttempt"
  /\ ~last.ret
  /\ last.identifier = <<"default">>
  /\ Cardinality(DOMAIN toolAttempts) >= 3
  /\ \E k \in DOMAIN toolAttempts : toolAttempts[k] >= 2

====
